---- MODULE Spec2Model ----
(***************************************************************************)
(* A model of deeptools/deepBlue.py: the client of the deepBlue server.    *)
(*                                                                         *)
(*   mergeRegions, makeTiles          pure helpers (SpecMerge, SpecTiles)  *)
(*   deepBlue.values / deepBlue.stats the shaping of retrieved intervals   *)
(*                                    (SpecValues, SpecStats)              *)
(*   deepBlue.__init__, intervals,    the remote protocol (SpecSession)    *)
(*   values, stats, preload                                                *)
(*                                                                         *)
(* Python values are modelled as follows.  A tuple or list is a sequence,  *)
(* a dict is a function whose DOMAIN is its key set.  None is the string   *)
(* "None" where a string is expected and NoneCoord where a coordinate is   *)
(* expected.  Floats are integers, with NaN the float nan; a quotient is   *)
(* kept as its numerator and denominator.                                  *)
(***************************************************************************)
EXTENDS Integers, Sequences, FiniteSets, TLC

VARIABLES
    \* mergeRegions
    regions,        \* the argument of mergeRegions
    regions2,       \* what mergeRegions returned (preload's name for it)
    remerged,       \* mergeRegions of the flattened regions2
    mPc,            \* "input" | "merged" | "remerged"
    \* makeTiles
    chromsTuple,    \* db.chromsTuple: ordered (name, length) pairs
    binSize,        \* args.binSize
    distanceBetweenBins, \* args.distanceBetweenBins
    tIdx,           \* position of the for loop in chromsTuple
    tStart,         \* start
    tOut,           \* out
    tPc,            \* "for" | "while" | "done"
    \* deepBlue.values, lines 191-204
    vInts,          \* intervals: what self.intervals(chrom, start, end) returned
    vStart,         \* start
    vEnd,           \* end
    vOut,           \* o, the numpy array
    vPc,            \* "input" | "done"
    \* deepBlue.stats, lines 257-270
    sInts,          \* ints: what self.intervals(chrom, start, end) returned
    sStart,         \* start
    sEnd,           \* end, 0 when the caller left it unset
    sResult,        \* what stats returned or raised
    sPc,            \* "input" | "done"
    \* a deepBlue object and the call in progress on it
    self,           \* the fields of the object: experimentID, info, genome,
                    \* chromsDict, chromsTuple
    pc,             \* where the client is: "new", "init_info", "init_chroms",
                    \* "failed" (__init__ raised), "idle", "select",
                    \* "get_regions", "poll", "get_data"
    resps,          \* what server.search answered in getEID
    op,             \* the method being run and its arguments
    calls,          \* the remote calls the method has made, in order
    queryID,        \* the handle select_experiments returned
    reqID,          \* the handle get_regions returned
    request_status, \* the state the last poll saw
    job,            \* the state of the request on the server: "none" before
                    \* get_regions, then "running", "done" or "failed"
    ret,            \* how the last method ended
    bw              \* the bigWig writer of preload

mergeVars == <<regions, regions2, remerged, mPc>>
tileVars == <<chromsTuple, binSize, distanceBetweenBins, tIdx, tStart, tOut, tPc>>
valuesVars == <<vInts, vStart, vEnd, vOut, vPc>>
statsVars == <<sInts, sStart, sEnd, sResult, sPc>>
sessVars == <<self, pc, resps, op, calls, queryID, reqID, request_status, job, ret, bw>>
vars == <<mergeVars, tileVars, valuesVars, statsVars, sessVars>>

-----------------------------------------------------------------------------
(* Bounds of the model *)

MaxCoord == 2
MaxRegions == 3
MaxLen == 5
MaxBin == 3
MaxGap == 2
MaxTiles == 8
MaxPos == 4
MaxStatPos == 3
MaxResps == 2
MaxChromLen == 3
MaxPolls == 3
MaxInts == 2

-----------------------------------------------------------------------------
(* Python values *)

None == "None"
NoneCoord == -1

\* np.nan; the data values are positive
NaN == -1
DataValues == {1, 2}

\* the chromosome names of the model, in the order of Python's string comparison
ChromNames == <<"chr1", "chr2">>
Chroms == {ChromNames[i] : i \in 1..Len(ChromNames)}
ChromRank(c) == CHOOSE i \in 1..Len(ChromNames) : ChromNames[i] = c

\* bool(x) of a chromosome name or None
Truthy(c) == c # None /\ c # ""

Min(a, b) == IF a < b THEN a ELSE b
Max(a, b) == IF a > b THEN a ELSE b

SeqsUpTo(S, n) == UNION {[1..k -> S] : k \in 0..n}

-----------------------------------------------------------------------------
(* mergeRegions *)

\* a < b for two (chrom, start, end) tuples, as Python compares tuples
TupleLess(a, b) ==
    \/ ChromRank(a[1]) < ChromRank(b[1])
    \/ a[1] = b[1] /\ a[2] < b[2]
    \/ a[1] = b[1] /\ a[2] = b[2] /\ a[3] < b[3]

sorted(regs) == SortSeq(regs, TupleLess)

\* out[k].append(pair), creating out[k] when k is not in out
DictAppend(out, k, pair) ==
    IF k \in DOMAIN out
    THEN [out EXCEPT ![k] = Append(@, pair)]
    ELSE (k :> <<pair>>) @@ out

EmptyDict == [k \in {} |-> <<>>]

\* the flush of `last`, with start and end exchanged
FlushSwapped(out, last) == DictAppend(out, last[1], <<last[3], last[2]>>)

\* lines 44-46 and 48-50: append [last[1], last[2]] to out[last[0]]
Flush(out, last) == DictAppend(out, last[1], <<last[2], last[3]>>)

\* the body of the for loop with line 40 left out: the end of `last` stays
MergeStepKeepEnd(st, reg) ==
    IF reg[1] = st.last[1] /\ reg[2] <= st.last[2]
    THEN st
    ELSE [last |-> reg,
          out |-> IF Truthy(st.last[1]) THEN Flush(st.out, st.last) ELSE st.out]

\* lines 39-47: one iteration of the for loop over the sorted regions
MergeStep(st, reg) ==
    IF reg[1] = st.last[1] /\ reg[2] <= st.last[2]
    THEN [st EXCEPT !.last[3] = reg[3]]
    ELSE [last |-> reg,
          out |-> IF Truthy(st.last[1]) THEN Flush(st.out, st.last) ELSE st.out]

RECURSIVE MergeLoop(_, _, _)
MergeLoop(st, bar, i) ==
    IF i > Len(bar) THEN st ELSE MergeLoop(MergeStep(st, bar[i]), bar, i + 1)

mergeRegions(regs) ==
    LET st == MergeLoop([last |-> <<None, NoneCoord, NoneCoord>>, out |-> EmptyDict],
                        sorted(regs), 1)
    IN  Flush(st.out, st.last)

\* the dict of mergeRegions as a list of (chrom, start, end), chromosome by
\* chromosome
RECURSIVE FlattenKeys(_, _)
FlattenKeys(out, keys) ==
    IF keys = {} THEN <<>>
    ELSE LET k == CHOOSE x \in keys : \A y \in keys : ChromRank(x) <= ChromRank(y)
         IN  [i \in 1..Len(out[k]) |-> <<k, out[k][i][1], out[k][i][2]>>]
             \o FlattenKeys(out, keys \ {k})

Flatten(out) == FlattenKeys(out, DOMAIN out)

\* the regions a caller passes: makeTiles emits start <= end
RegionValues ==
    {<<c, s, e>> : c \in Chroms, s \in 0..MaxCoord, e \in 0..MaxCoord}

Regions == {r \in RegionValues : r[2] <= r[3]}

ExampleRegions == <<<<"chr1", 0, 100>>, <<"chr1", 50, 150>>>>

RegionLists == SeqsUpTo(Regions, MaxRegions) \cup {ExampleRegions}

MergeIdle ==
    /\ regions = <<>>
    /\ regions2 = EmptyDict
    /\ remerged = EmptyDict
    /\ mPc = "off"

InitMerge ==
    /\ regions \in RegionLists
    /\ regions2 = EmptyDict
    /\ remerged = EmptyDict
    /\ mPc = "input"

Merge ==
    /\ mPc = "input"
    /\ regions2' = mergeRegions(regions)
    /\ mPc' = "merged"
    /\ UNCHANGED <<regions, remerged>>

ReMerge ==
    /\ mPc = "merged"
    /\ regions # <<>>
    /\ remerged' = mergeRegions(Flatten(regions2))
    /\ mPc' = "remerged"
    /\ UNCHANGED <<regions, regions2>>

-----------------------------------------------------------------------------
(* makeTiles *)

TilesIdle ==
    /\ chromsTuple = <<>>
    /\ binSize = 1
    /\ distanceBetweenBins = 0
    /\ tIdx = 1
    /\ tStart = 0
    /\ tOut = <<>>
    /\ tPc = "off"

ChromTuples ==
    {<<<<ChromNames[1], l>>>> : l \in 0..MaxLen}
    \cup {<<<<ChromNames[1], l>>, <<ChromNames[2], m>>>> : l \in 0..MaxLen, m \in 0..MaxLen}

ExampleTiles == [chroms |-> <<<<"chr1", 2500>>>>, bin |-> 1000, gap |-> 0]

TileInputs ==
    {[chroms |-> c, bin |-> b, gap |-> g] :
        c \in ChromTuples, b \in (0 - 1)..MaxBin, g \in 0..MaxGap}
    \cup {ExampleTiles}

InitTiles ==
    /\ \E inp \in TileInputs :
        /\ chromsTuple = inp.chroms
        /\ binSize = inp.bin
        /\ distanceBetweenBins = inp.gap
    /\ tIdx = 1
    /\ tStart = 0
    /\ tOut = <<>>
    /\ tPc = "for"

\* line 66: start += end + args.distanceBetweenBins
NextStart(start, end) == start + end + distanceBetweenBins

\* lines 62-64
TileEnd(start, v) ==
    IF start + binSize > v THEN v ELSE start + binSize

\* lines 59-60: the for loop takes the next chromosome, or ends (line 67)
TileFor ==
    /\ tPc = "for"
    /\ IF tIdx <= Len(chromsTuple)
       THEN /\ tStart' = 0
            /\ tPc' = "while"
       ELSE /\ tPc' = "done"
            /\ UNCHANGED tStart
    /\ UNCHANGED <<chromsTuple, binSize, distanceBetweenBins, tIdx, tOut>>

\* lines 61-66: one iteration of the while loop
TileEmit ==
    /\ tPc = "while"
    /\ tStart <= chromsTuple[tIdx][2]
    /\ Len(tOut) < MaxTiles
    /\ LET k == chromsTuple[tIdx][1]
           end == TileEnd(tStart, chromsTuple[tIdx][2])
       IN  /\ tOut' = Append(tOut, <<k, tStart, end>>)
           /\ tStart' = NextStart(tStart, end)
    /\ UNCHANGED <<chromsTuple, binSize, distanceBetweenBins, tIdx, tPc>>

\* line 61: the while test fails
TileExit ==
    /\ tPc = "while"
    /\ tStart > chromsTuple[tIdx][2]
    /\ tIdx' = tIdx + 1
    /\ tPc' = "for"
    /\ UNCHANGED <<chromsTuple, binSize, distanceBetweenBins, tStart, tOut>>

-----------------------------------------------------------------------------
(* deepBlue.values: the dense array, lines 191-204 *)

\* a bound of a numpy slice on an array of length n
SliceIdx(i, n) == IF i < 0 THEN Max(i + n, 0) ELSE Min(i, n)

\* o[s:e] = v
SliceAssign(o, s, e, v) ==
    LET n == Len(o)
        a == SliceIdx(s, n)
        b == SliceIdx(e, n)
    IN  [i \in 1..n |-> IF a < i /\ i <= b THEN v ELSE o[i]]

\* lines 195-202 without lines 197-198: a negative s is not raised to 0
FillIntervalNoClip(o, interval, start, end) ==
    LET s == interval[1] - start
        e0 == s + interval[2] - interval[1]
        e == IF e0 >= end - start THEN end - start ELSE e0
    IN  IF e > s THEN SliceAssign(o, s, e, interval[3]) ELSE o

\* lines 195-202: one iteration of the loop over the intervals
FillInterval(o, interval, start, end) ==
    LET s0 == interval[1] - start
        e0 == s0 + interval[2] - interval[1]
        s == IF s0 < 0 THEN 0 ELSE s0
        e == IF e0 >= end - start THEN end - start ELSE e0
    IN  IF e > s THEN SliceAssign(o, s, e, interval[3]) ELSE o

RECURSIVE FillLoop(_, _, _, _, _)
FillLoop(o, intervals, i, start, end) ==
    IF i > Len(intervals) THEN o
    ELSE FillLoop(FillInterval(o, intervals[i], start, end), intervals, i + 1, start, end)

\* lines 192-204: np.empty(end - start) filled with nan, then the loop
valuesOf(intervals, start, end) ==
    FillLoop([i \in 1..(end - start) |-> NaN], intervals, 1, start, end)

\* (start, end, value) intervals as the server reports them: start < end
IntervalsOver(n, V) ==
    {iv \in {<<s, e, v>> : s \in 0..n, e \in 0..n, v \in V} : iv[1] < iv[2]}

ValuesIdle ==
    /\ vInts = <<>>
    /\ vStart = 0
    /\ vEnd = 0
    /\ vOut = <<>>
    /\ vPc = "off"

InitValues ==
    /\ vInts \in SeqsUpTo(IntervalsOver(MaxPos, DataValues), MaxInts)
    /\ vStart \in 0..MaxPos
    /\ vEnd \in 0..MaxPos
    /\ vStart < vEnd
    /\ vOut = <<>>
    /\ vPc = "input"

Values ==
    /\ vPc = "input"
    /\ vOut' = valuesOf(vInts, vStart, vEnd)
    /\ vPc' = "done"
    /\ UNCHANGED <<vInts, vStart, vEnd>>

-----------------------------------------------------------------------------
(* deepBlue.stats: the weighted mean, lines 257-270 *)

IsNaN(x) == x = NaN

\* np.all(np.isnan(ints)): ints becomes an array of all the fields of all
\* the tuples, starts and ends included
AllIsNaN(ints) ==
    \A i \in 1..Len(ints) : \A j \in 1..3 : IsNaN(ints[i][j])

\* lines 262-268 with the tests `start > 0` and `end > 0` left out
WeightAlwaysClipped(x, start, end) ==
    LET s == IF x[1] < start THEN start ELSE x[1]
        e == IF x[2] > end THEN end ELSE x[2]
    IN  e - s

\* lines 262-268: the weight of one interval
Weight(x, start, end) ==
    LET s == IF start > 0 /\ x[1] < start THEN start ELSE x[1]
        e == IF end > 0 /\ x[2] > end THEN end ELSE x[2]
    IN  e - s

RECURSIVE SumSeq(_, _)
SumSeq(f, i) == IF i > Len(f) THEN 0 ELSE f[i] + SumSeq(f, i + 1)

NoneResult == [kind |-> "None", num |-> 0, den |-> 1]
NaNResult == [kind |-> "nan", num |-> 0, den |-> 1]
RaiseResult == [kind |-> "raise", num |-> 0, den |-> 1]

\* np.average(vals, weights=weights): ZeroDivisionError when the weights sum
\* to zero, nan when a value is nan, else sum(vals * weights) / sum(weights)
average(vals, weights) ==
    LET scl == SumSeq(weights, 1)
    IN  IF scl = 0 THEN RaiseResult
        ELSE IF \E i \in 1..Len(vals) : IsNaN(vals[i]) THEN NaNResult
        ELSE [kind |-> "mean",
              num |-> SumSeq([i \in 1..Len(vals) |-> vals[i] * weights[i]], 1),
              den |-> scl]

\* lines 257-270
statsOf(ints, start, end) ==
    IF Len(ints) = 0 \/ AllIsNaN(ints) THEN NoneResult
    ELSE average([i \in 1..Len(ints) |-> ints[i][3]],
                 [i \in 1..Len(ints) |-> Weight(ints[i], start, end)])

StatsIdle ==
    /\ sInts = <<>>
    /\ sStart = 0
    /\ sEnd = 0
    /\ sResult = NoneResult
    /\ sPc = "off"

\* the intervals the server selects for [start, end) are those overlapping
\* it; intervals() reads end = 0 as the length of the chromosome
Overlaps(iv, start, end, chromLen) ==
    /\ iv[1] < (IF end = 0 THEN chromLen ELSE end)
    /\ iv[2] > start

ExampleStats == [ints |-> <<<<0, 10, 2>>, <<10, 20, 4>>>>, start |-> 0, end |-> 20]

\* a call stats(chrom, start, end) that passes the tests of intervals(), and
\* the intervals the server selects for it
StatsInput(ints, start, end, chromLen) ==
    /\ start < (IF end = 0 THEN chromLen ELSE end)
    /\ \A i \in 1..Len(ints) : Overlaps(ints[i], start, end, chromLen)

InitStats ==
    /\ \/ \E l \in SeqsUpTo(IntervalsOver(MaxStatPos, DataValues \cup {NaN}), MaxInts),
              a \in 0..(MaxStatPos - 1), b \in 0..MaxStatPos :
            /\ StatsInput(l, a, b, MaxStatPos)
            /\ sInts = l
            /\ sStart = a
            /\ sEnd = b
       \/ /\ sInts = ExampleStats.ints
          /\ sStart = ExampleStats.start
          /\ sEnd = ExampleStats.end
    /\ sResult = NoneResult
    /\ sPc = "input"

Stats ==
    /\ sPc = "input"
    /\ sResult' = statsOf(sInts, sStart, sEnd)
    /\ sPc' = "done"
    /\ UNCHANGED <<sInts, sStart, sEnd>>

-----------------------------------------------------------------------------
(* The deepBlue object: __init__, chroms, intervals, values, stats, preload *)

\* the sample asked for, and another sample of the server
Sample == "sample"
OtherSample == "sample2"

\* what a failed call answers in place of its payload
ServerMsg == "server message"

NoRet == [kind |-> "none", exc |-> "", msg |-> "", list |-> <<>>, arr |-> <<>>,
          stat |-> NoneResult]
Raise(exc, msg) == [NoRet EXCEPT !.kind = "raise", !.exc = exc, !.msg = msg]
ReturnNone == [NoRet EXCEPT !.kind = "return"]
ReturnList(o) == [NoRet EXCEPT !.kind = "return", !.list = o]
ReturnArr(o) == [NoRet EXCEPT !.kind = "return", !.arr = o]

NoOp == [name |-> "none", chrom |-> None, start |-> 0, end |-> 0, qend |-> 0]

\* pyBigWig's writer: never opened before line 304
NoWriter == [state |-> "unopened", headers |-> 0, entries |-> 0, misordered |-> FALSE]

\* lines 96-104; None is "None" for a string; chromsDict and chromsTuple, which
\* no method reads before getChroms has set them, start empty
NewSelf == [experimentID |-> None, hasInfo |-> FALSE, genome |-> None,
            chromsDict |-> EmptyDict, chromsTuple |-> <<>>]

\* no answer of server.search is held: `resps` is a local of getEID, kept here
\* while __init__ runs and gone once it has returned
NoResps == [status |-> None, list |-> <<>>]

SessIdle ==
    /\ self = NewSelf
    /\ pc = "off"
    /\ resps = NoResps
    /\ op = NoOp
    /\ calls = <<>>
    /\ queryID = None
    /\ reqID = None
    /\ request_status = None
    /\ job = "none"
    /\ ret = NoRet
    /\ bw = NoWriter

\* the state after lines 96-104
InitSess ==
    /\ self = NewSelf
    /\ pc = "new"
    /\ resps = NoResps
    /\ op = [NoOp EXCEPT !.name = "__init__"]
    /\ calls = <<>>
    /\ queryID = None
    /\ reqID = None
    /\ request_status = None
    /\ job = "none"
    /\ ret = NoRet
    /\ bw = NoWriter

Statuses == {"okay", "error"}

\* a remote call and the status of its answer
Call(m, status) == [m |-> m, status |-> status]

\* (id, name) entries of a search answer
SearchEntries == {<<id, n>> : id \in {"e1", "e2"}, n \in {Sample, OtherSample}}

\* lines 136-140: the id of the first entry whose name is the sample, or None
getEID(rs) ==
    LET hits == {i \in 1..Len(rs) : rs[i][2] = Sample}
    IN  IF hits = {} THEN None
        ELSE rs[CHOOSE i \in hits : \A j \in hits : i <= j][1]

\* lines 107-109 with getEID, lines 133-140
InitSearch ==
    /\ pc = "new"
    /\ \E status \in Statuses, rs \in SeqsUpTo(SearchEntries, MaxResps) :
        /\ status = "error" => rs = <<>>
        /\ calls' = Append(calls, Call("search", status))
        /\ resps' = [status |-> status, list |-> rs]
        /\ IF status # "okay"
           THEN /\ ret' = Raise("RuntimeError", ServerMsg)
                /\ pc' = "failed"
                /\ UNCHANGED self
           ELSE IF getEID(rs) = None
           THEN /\ ret' = Raise("RuntimeError", "")
                /\ pc' = "failed"
                /\ UNCHANGED self
           ELSE /\ self' = [self EXCEPT !.experimentID = getEID(rs)]
                /\ pc' = "init_info"
                /\ UNCHANGED ret
    /\ UNCHANGED <<op, queryID, reqID, request_status, job, bw>>

\* the "genome" entry of resp[0], None when the key is missing
Genomes == {"hg19", "", None}

\* lines 112-120 with getGenome, lines 148-150
InitInfo ==
    /\ pc = "init_info"
    /\ \E status \in Statuses, g \in Genomes :
        /\ status = "error" => g = None
        /\ calls' = Append(calls, Call("info", status))
        /\ IF status # "okay"
           THEN /\ ret' = Raise("RuntimeError", ServerMsg)
                /\ pc' = "failed"
                /\ UNCHANGED self
           ELSE IF g = None \/ g = ""
           THEN /\ self' = [self EXCEPT !.hasInfo = TRUE,
                                        !.genome = IF g = None THEN @ ELSE g]
                /\ ret' = Raise("RuntimeError", "")
                /\ pc' = "failed"
           ELSE /\ self' = [self EXCEPT !.hasInfo = TRUE, !.genome = g]
                /\ pc' = "init_chroms"
                /\ UNCHANGED ret
    /\ UNCHANGED <<resps, op, queryID, reqID, request_status, job, bw>>

\* the (name, length) lists server.chromosomes answers
ChromLists ==
    {<<>>, <<<<ChromNames[1], MaxChromLen>>>>,
     <<<<ChromNames[1], MaxChromLen>>, <<ChromNames[2], MaxChromLen - 1>>>>}

\* line 161: {k: v for k, v in resp}
DictOf(resp) ==
    [k \in {resp[i][1] : i \in 1..Len(resp)} |->
        resp[CHOOSE i \in 1..Len(resp) :
                /\ resp[i][1] = k
                /\ \A j \in 1..Len(resp) : resp[j][1] = k => j <= i][2]]

\* lines 123-125 with getChroms, lines 158-163
InitChroms ==
    /\ pc = "init_chroms"
    /\ \E status \in Statuses, resp \in ChromLists :
        /\ status = "error" => resp = <<>>
        /\ calls' = Append(calls, Call("chromosomes", status))
        /\ IF status # "okay"
           THEN /\ ret' = Raise("RuntimeError", ServerMsg)
                /\ pc' = "failed"
                /\ UNCHANGED self
           ELSE /\ self' = [self EXCEPT !.chromsDict = DictOf(resp), !.chromsTuple = resp]
                /\ IF resp = <<>>
                   THEN /\ ret' = Raise("RuntimeError", "")
                        /\ pc' = "failed"
                   ELSE /\ ret' = ReturnNone
                        /\ pc' = "idle"
        /\ resps' = IF status = "okay" /\ resp # <<>> THEN NoResps ELSE resps
    /\ UNCHANGED <<op, queryID, reqID, request_status, job, bw>>

\* the chromosome names a caller asks for: one the genome may have, one it
\* has not
AskedChroms == {ChromNames[1], "chrX"}

\* the bounds a caller passes; an end of 0 is an end left unset
AskedStarts == {0, 1}
AskedEnds == {0, 1, 2}

\* lines 165-173: chroms(chrom)
CallChroms ==
    /\ pc = "idle"
    /\ \E chrom \in AskedChroms \cup {None} :
        /\ op' = [NoOp EXCEPT !.name = "chroms", !.chrom = chrom]
        /\ ret' = IF chrom = None THEN ReturnNone
                  ELSE IF chrom \in DOMAIN self.chromsDict
                  THEN [ReturnNone EXCEPT !.list = <<self.chromsDict[chrom]>>]
                  ELSE ReturnNone
    /\ calls' = <<>>
    /\ queryID' = None
    /\ reqID' = None
    /\ request_status' = None
    /\ job' = "none"
    /\ UNCHANGED <<self, pc, resps, bw>>

\* lines 272-273: close() does nothing
Close ==
    /\ pc = "idle"
    /\ op' = [NoOp EXCEPT !.name = "close"]
    /\ ret' = ReturnNone
    /\ calls' = <<>>
    /\ queryID' = None
    /\ reqID' = None
    /\ request_status' = None
    /\ job' = "none"
    /\ UNCHANGED <<self, pc, resps, bw>>

\* the assignment of line 214 turned round: an end of 0 is stored as the length
\* of the chromosome instead of being replaced by it
BeginQueryStoresEnd ==
    /\ pc = "idle"
    /\ \E name \in {"intervals", "values", "stats"}, chrom \in AskedChroms,
          start \in AskedStarts, end \in AskedEnds :
        LET known == chrom \in DOMAIN self.chromsDict
        IN  /\ op' = [name |-> name, chrom |-> chrom, start |-> start, end |-> end,
                      qend |-> end]
            /\ self' = IF end = 0 /\ known
                       THEN [self EXCEPT !.chromsDict[chrom] = end]
                       ELSE self
            /\ IF ~known \/ start >= end
               THEN /\ ret' = Raise("RuntimeError", "")
                    /\ pc' = "idle"
               ELSE /\ ret' = NoRet
                    /\ pc' = "select"
    /\ calls' = <<>>
    /\ queryID' = None
    /\ reqID' = None
    /\ request_status' = None
    /\ job' = "none"
    /\ UNCHANGED <<resps, bw>>

\* the argument tests without the test of lines 184-185 and 216-217: a range
\* with start >= end goes on to the server
BeginQueryNoRangeTest ==
    /\ pc = "idle"
    /\ \E name \in {"intervals", "values", "stats"}, chrom \in AskedChroms,
          start \in AskedStarts, end \in AskedEnds :
        LET known == chrom \in DOMAIN self.chromsDict
            qend == IF end = 0 /\ known THEN self.chromsDict[chrom] ELSE end
        IN  /\ op' = [name |-> name, chrom |-> chrom, start |-> start, end |-> end,
                      qend |-> qend]
            /\ IF ~known
               THEN /\ ret' = Raise("RuntimeError", "")
                    /\ pc' = "idle"
               ELSE /\ ret' = NoRet
                    /\ pc' = "select"
    /\ calls' = <<>>
    /\ queryID' = None
    /\ reqID' = None
    /\ request_status' = None
    /\ job' = "none"
    /\ UNCHANGED <<self, resps, bw>>

\* lines 180-187 of values and lines 210-217 of intervals (stats enters
\* intervals at once, line 256): the tests made before any remote call
BeginQuery ==
    /\ pc = "idle"
    /\ \E name \in {"intervals", "values", "stats"}, chrom \in AskedChroms,
          start \in AskedStarts, end \in AskedEnds :
        LET known == chrom \in DOMAIN self.chromsDict
            qend == IF end = 0 /\ known THEN self.chromsDict[chrom] ELSE end
        IN  /\ op' = [name |-> name, chrom |-> chrom, start |-> start, end |-> end,
                      qend |-> qend]
            /\ IF ~known \/ start >= qend
               THEN /\ ret' = Raise("RuntimeError", "")
                    /\ pc' = "idle"
               ELSE /\ ret' = NoRet
                    /\ pc' = "select"
    /\ calls' = <<>>
    /\ queryID' = None
    /\ reqID' = None
    /\ request_status' = None
    /\ job' = "none"
    /\ UNCHANGED <<self, resps, bw>>

\* lines 220-224: select_experiments
Select ==
    /\ pc = "select"
    /\ \E status \in Statuses, id \in {"q1", None} :
        /\ status = "error" => id = None
        /\ calls' = Append(calls, Call("select_experiments", status))
        /\ IF status # "okay"
           THEN /\ ret' = Raise("RuntimeError", ServerMsg)
                /\ pc' = "idle"
                /\ UNCHANGED queryID
           ELSE IF id = None
           THEN /\ ret' = Raise("RuntimeError", "")
                /\ pc' = "idle"
                /\ UNCHANGED queryID
           ELSE /\ queryID' = id
                /\ pc' = "get_regions"
                /\ UNCHANGED ret
    /\ UNCHANGED <<self, resps, op, reqID, request_status, job, bw>>

\* lines 227-229: get_regions
GetRegions ==
    /\ pc = "get_regions"
    /\ \E status \in Statuses :
        /\ calls' = Append(calls, Call("get_regions", status))
        /\ IF status # "okay"
           THEN /\ ret' = Raise("RuntimeError", ServerMsg)
                /\ pc' = "idle"
                /\ UNCHANGED <<reqID, job>>
           ELSE /\ reqID' = "r1"
                /\ job' = "running"
                /\ pc' = "poll"
                /\ UNCHANGED ret
    /\ UNCHANGED <<self, resps, op, queryID, request_status, bw>>

\* the states of a request on the server
PendingStates == {"running"}
FinalStates == {"done", "failed"}

\* the server works on the request: it ends done or failed.  The client has no
\* part in this step.
ServerStep ==
    /\ pc \in {"poll", "sleep"}
    /\ job = "running"
    /\ job' \in FinalStates
    /\ UNCHANGED <<self, pc, resps, op, calls, queryID, reqID, request_status, ret, bw>>

\* the log of remote calls after one more poll; it keeps MaxPolls polls, and a
\* later poll takes the place of the last one
LogPoll(cs, c) ==
    IF Len(cs) < MaxPolls + 2 THEN Append(cs, c) ELSE [cs EXCEPT ![Len(cs)] = c]

\* the wait loop with a deadline: after MaxPolls polls of a running request
\* the client stops waiting
PollWithDeadline ==
    /\ pc = "poll"
    /\ \E status \in Statuses :
        /\ calls' = LogPoll(calls, Call("info", status))
        /\ IF status # "okay"
           THEN /\ ret' = Raise("TypeError", "")
                /\ pc' = "idle"
                /\ UNCHANGED request_status
           ELSE /\ request_status' = job
                /\ pc' = IF job \in FinalStates \/ Len(calls) >= MaxPolls + 2
                         THEN "get_data" ELSE "sleep"
                /\ UNCHANGED ret
    /\ UNCHANGED <<self, resps, op, queryID, reqID, job, bw>>

\* the wait loop left after the first poll, whatever state it saw
PollOnce ==
    /\ pc = "poll"
    /\ \E status \in Statuses :
        /\ calls' = LogPoll(calls, Call("info", status))
        /\ IF status # "okay"
           THEN /\ ret' = Raise("TypeError", "")
                /\ pc' = "idle"
                /\ UNCHANGED request_status
           ELSE /\ request_status' = job
                /\ pc' = "get_data"
                /\ UNCHANGED ret
    /\ UNCHANGED <<self, resps, op, queryID, reqID, job, bw>>

\* lines 232-237: one server.info(reqID) of the wait loop (line 232, or line
\* 236 after the sleep) and the loop test; the status of the answer is not read, and
\* info[0]["state"] of an error string is a TypeError
Poll ==
    /\ pc = "poll"
    /\ \E status \in Statuses :
        /\ calls' = LogPoll(calls, Call("info", status))
        /\ IF status # "okay"
           THEN /\ ret' = Raise("TypeError", "")
                /\ pc' = "idle"
                /\ UNCHANGED request_status
           ELSE /\ request_status' = job
                /\ pc' = IF job \in FinalStates THEN "get_data" ELSE "sleep"
                /\ UNCHANGED ret
    /\ UNCHANGED <<self, resps, op, queryID, reqID, job, bw>>

\* line 235: time.sleep(0.1) returns
Sleep ==
    /\ pc = "sleep"
    /\ pc' = "poll"
    /\ UNCHANGED <<self, resps, op, calls, queryID, reqID, request_status, job, ret, bw>>

\* int() of a field of the payload: its value, or NoneCoord for a ValueError
IntTokens == <<"0", "1", "2", "3">>
IntOf(tok) ==
    IF \E i \in 1..Len(IntTokens) : IntTokens[i] = tok
    THEN (CHOOSE i \in 1..Len(IntTokens) : IntTokens[i] = tok) - 1
    ELSE NoneCoord

\* float() of a field of the payload: 0 stands for a ValueError
FloatOf(tok) ==
    CASE tok = "1.0" -> 1
      [] tok = "2.0" -> 2
      [] tok = "nan" -> NaN
      [] OTHER -> 0

\* the records of a payload, each split at its tabs: START, END, VALUE
GoodLines == {<<"0", "2", "1.0">>, <<"1", "3", "2.0">>, <<"2", "3", "nan">>}
BadLines == {<<"x", "1", "1.0">>, <<"1">>}
BlankLine == <<"">>

Payloads ==
    LET good == {<<>>} \cup {<<a>> : a \in GoodLines}
                       \cup {<<a, b>> : a \in GoodLines, b \in GoodLines}
    IN  good \cup {Append(p, BlankLine) : p \in good}
             \cup {<<b>> : b \in BadLines}

\* lines 246-249 for one record: "skip", "error" or the tuple
ParseLine(interval) ==
    IF interval[1] = "" THEN "skip"
    ELSE IF Len(interval) < 3 THEN "error"
    ELSE IF IntOf(interval[1]) = NoneCoord \/ IntOf(interval[2]) = NoneCoord
            \/ FloatOf(interval[3]) = 0 THEN "error"
    ELSE "tuple"

TupleOf(interval) == <<IntOf(interval[1]), IntOf(interval[2]), FloatOf(interval[3])>>

RECURSIVE ParseFrom(_, _)
ParseFrom(lines, i) ==
    IF i > Len(lines) THEN <<>>
    ELSE IF ParseLine(lines[i]) = "tuple"
         THEN <<TupleOf(lines[i])>> \o ParseFrom(lines, i + 1)
         ELSE ParseFrom(lines, i + 1)

\* lines 244-250: o
Parse(lines) == ParseFrom(lines, 1)

ParseFails(lines) == \E i \in 1..Len(lines) : ParseLine(lines[i]) = "error"

\* what the method returns once intervals() has returned o: line 250 for
\* intervals, lines 191-204 for values, lines 257-270 for stats
Finish(o) ==
    CASE op.name = "intervals" -> ReturnList(o)
      [] op.name = "values" -> ReturnArr(valuesOf(o, op.start, op.qend))
      [] OTHER ->
            LET st == statsOf(o, op.start, op.end)
            IN  IF st.kind = "raise" THEN Raise("ZeroDivisionError", "")
                ELSE [ReturnNone EXCEPT !.stat = st]

\* lines 240-250 and the rest of the calling method
AfterPoll(status, payload) ==
    IF status # "okay" THEN Raise("RuntimeError", ServerMsg)
    ELSE IF ParseFails(payload) THEN Raise("ValueError", "")
    ELSE Finish(Parse(payload))

\* lines 240-250: get_request_data, then the method returns
GetData ==
    /\ pc = "get_data"
    /\ \E status \in Statuses, payload \in Payloads :
        /\ status = "error" => payload = <<>>
        /\ calls' = Append(calls, Call("get_request_data", status))
        /\ ret' = AfterPoll(status, payload)
    /\ pc' = "idle"
    /\ UNCHANGED <<self, resps, op, queryID, reqID, request_status, job, bw>>

\* the regions preload is given
PreloadRegions == SeqsUpTo(Regions, 1)

\* lines 281-285: preload merges the regions and then evaluates
\* self.chromsTuple.items(); chromsTuple is the list of line 162, which has no
\* items(), so the AttributeError ends preload before line 287.  Lines 287-346
\* are never run (and line 347, an indented statement after the return, is
\* not part of any method).
Preload ==
    /\ pc = "idle"
    /\ \E regs \in PreloadRegions :
        /\ DOMAIN mergeRegions(regs) # {}    \* line 281 returns a dict
        /\ op' = [NoOp EXCEPT !.name = "preload"]
        /\ ret' = Raise("AttributeError", "")
    /\ calls' = <<>>
    /\ queryID' = None
    /\ reqID' = None
    /\ request_status' = None
    /\ job' = "none"
    /\ UNCHANGED <<self, pc, resps, bw>>

-----------------------------------------------------------------------------
(* Claims about mergeRegions *)

\* the (chrom, position) points of a list of (chrom, start, end)
PointsOfList(regs) ==
    UNION {{<<regs[i][1], p>> : p \in regs[i][2]..(regs[i][3] - 1)} : i \in 1..Len(regs)}

\* the (chrom, position) points of a dict chrom -> [[start, end], ...]
PointsOfDict(out) ==
    UNION {UNION {{<<k, p>> : p \in out[k][i][1]..(out[k][i][2] - 1)} :
                    i \in 1..Len(out[k])} : k \in DOMAIN out}

ChromsOfList(regs) == {regs[i][1] : i \in 1..Len(regs)}

\* C1: per chromosome the entries mergeRegions returns are ascending and
\* maximal, each start strictly greater than the end of the entry before it;
\* (chr1,0,100) and (chr1,50,150) merge into the single region (chr1,0,150).
C1_MergedMaximal ==
    mPc # "input" =>
        /\ \A k \in DOMAIN regions2 : \A i \in 1..(Len(regions2[k]) - 1) :
                regions2[k][i + 1][1] > regions2[k][i][2]
        /\ regions = ExampleRegions => regions2 = ("chr1" :> <<<<0, 150>>>>)

\* C2: the points covered by the output of mergeRegions are exactly the points
\* covered by its input, and every output key is a chromosome of the input.
C2_MergeKeepsPoints ==
    (mPc # "input" /\ regions # <<>>) =>
        /\ PointsOfDict(regions2) = PointsOfList(regions)
        /\ DOMAIN regions2 \subseteq ChromsOfList(regions)

\* two regions of one chromosome with the same start and different ends were
\* merged into one entry
C2_Witness ==
    /\ mPc = "merged"
    /\ \E i, j \in 1..Len(regions) :
            /\ regions[i][1] = regions[j][1]
            /\ regions[i][2] = regions[j][2]
            /\ regions[i][3] < regions[j][3]
    /\ Cardinality(DOMAIN regions2) = 2
    /\ PointsOfDict(regions2) # {}

\* C3: merging the flattened output of mergeRegions again gives the same dict.
C3_MergeIdempotent ==
    mPc = "remerged" => remerged = regions2

\* the second merge ran on an output that holds several entries for one
\* chromosome and an entry that absorbed another region
C3_Witness ==
    /\ mPc = "remerged"
    /\ \E k \in DOMAIN regions2 : Len(regions2[k]) >= 2
    /\ Len(Flatten(regions2)) < Len(regions)
    /\ \E k \in DOMAIN regions2 : \E i \in 1..Len(regions2[k]) :
            regions2[k][i][1] < regions2[k][i][2]

\* C13: mergeRegions of the empty list fails: it returns no dict, and in
\* particular no dict with the key None or with None bounds.
C13_EmptyMergeFails ==
    (mPc # "input" /\ regions = <<>>) =>
        /\ mPc = "raised"
        /\ regions2 = EmptyDict

-----------------------------------------------------------------------------
(* Claims about makeTiles *)

\* the windows of one chromosome with starts 0, B+G, 2(B+G), ... <= L
WindowsOf(k, L, B, G) ==
    [i \in 1..((L \div (B + G)) + 1) |->
        <<k, (i - 1) * (B + G), Min((i - 1) * (B + G) + B, L)>>]

RECURSIVE WindowsFrom(_, _, _, _)
WindowsFrom(ct, i, B, G) ==
    IF i > Len(ct) THEN <<>>
    ELSE WindowsOf(ct[i][1], ct[i][2], B, G) \o WindowsFrom(ct, i + 1, B, G)

\* C4: for binSize B > 0 and gap G >= 0 makeTiles returns, chromosome by
\* chromosome, the windows starting at the multiples of B+G up to L, each
\* ending at min(start + B, L); B=1000, G=0, L=2500 gives three windows.
C4_TilesAtMultiples ==
    (tPc = "done" /\ binSize > 0) =>
        tOut = WindowsFrom(chromsTuple, 1, binSize, distanceBetweenBins)

\* C14: makeTiles with binSize <= 0 and at least one chromosome fails: it
\* emits no window and does not go on looping or return a list.
C14_NonPositiveBinFails ==
    (binSize <= 0 /\ chromsTuple # <<>>) =>
        /\ tOut = <<>>
        /\ tPc # "done"

\* the length of chromosome k in chromsTuple
LengthOf(k) == chromsTuple[CHOOSE i \in 1..Len(chromsTuple) : chromsTuple[i][1] = k][2]

\* C20: for binSize > 0 and gap >= 0 every window makeTiles emits is a
\* non-empty half-open interval inside its chromosome, 0 <= start < end <= L,
\* and the windows of one chromosome are disjoint with increasing starts.
C20_WindowsInsideAndDisjoint ==
    binSize > 0 =>
        /\ \A i \in 1..Len(tOut) :
                /\ 0 <= tOut[i][2]
                /\ tOut[i][2] < tOut[i][3]
                /\ tOut[i][3] <= LengthOf(tOut[i][1])
        /\ \A i, j \in 1..Len(tOut) :
                (i < j /\ tOut[i][1] = tOut[j][1]) =>
                    /\ tOut[i][2] < tOut[j][2]
                    /\ tOut[i][3] <= tOut[j][2]

-----------------------------------------------------------------------------
(* Claims about deepBlue.values *)

Covers(iv, p) == iv[1] <= p /\ p < iv[2]

\* the value of the last interval, in input order, that covers position p
LastCovering(ints, p) ==
    LET js == {j \in 1..Len(ints) : Covers(ints[j], p)}
    IN  IF js = {} THEN NaN
        ELSE ints[CHOOSE j \in js : \A k \in js : k <= j][3]

\* C6: values() returns an array of length end - start whose slot i holds the
\* value of the last interval in input order covering start + i, and nan when
\* no interval covers it.
C6_ValuesLastWriteWins ==
    vPc = "done" =>
        /\ Len(vOut) = vEnd - vStart
        /\ \A i \in 0..(vEnd - vStart - 1) :
                vOut[i + 1] = LastCovering(vInts, vStart + i)

\* an interval that begins before the window, a later one that overwrites a
\* slot of it with another value, and a slot left at nan
C6_Witness ==
    /\ vPc = "done"
    /\ Len(vInts) = 2
    /\ vInts[1][1] < vStart
    /\ vInts[1][3] # vInts[2][3]
    /\ \E p \in vStart..(vEnd - 1) :
            /\ Covers(vInts[1], p)
            /\ Covers(vInts[2], p)
            /\ vOut[p - vStart + 1] = vInts[2][3]
    /\ \E i \in 1..Len(vOut) : vOut[i] = NaN
    /\ \E i \in 1..Len(vOut) : vOut[i] = vInts[1][3]

-----------------------------------------------------------------------------
(* Claims about deepBlue.stats *)

\* C7: stats() returns None when the interval list is empty, and also when
\* every interval's value is nan; it returns no mean then.
C7_NoDataGivesNone ==
    (sPc = "done" /\ \A i \in 1..Len(sInts) : IsNaN(sInts[i][3])) =>
        sResult.kind = "None"

\* the length of an interval clipped to the bounds that are set
ClippedLength(x, start, end) ==
    (IF end > 0 THEN Min(x[2], end) ELSE x[2])
        - (IF start > 0 THEN Max(x[1], start) ELSE x[1])

\* C8: for a non-empty list of intervals with data values stats() returns
\* sum(value_i * w_i) / sum(w_i), w_i the length of interval i clipped to start
\* when start > 0 and to end when end > 0; (0,10,2) and (10,20,4) over
\* [0,20) give 3.
C8_WeightedMean ==
    (sPc = "done" /\ Len(sInts) > 0 /\ \A i \in 1..Len(sInts) : ~IsNaN(sInts[i][3])) =>
        LET w == [i \in 1..Len(sInts) |-> ClippedLength(sInts[i], sStart, sEnd)]
            sumVW == SumSeq([i \in 1..Len(sInts) |-> sInts[i][3] * w[i]], 1)
            sumW == SumSeq(w, 1)
        IN  /\ sResult.kind = "mean"
            /\ sResult.den # 0
            /\ sResult.num * sumW = sumVW * sResult.den
            /\ sInts = ExampleStats.ints => sResult.num = 3 * sResult.den

\* a mean of two intervals of different values, the first clipped at start,
\* the end left unset
C8_Witness ==
    /\ sPc = "done"
    /\ sResult.kind = "mean"
    /\ Len(sInts) = 2
    /\ sInts[1][3] # sInts[2][3]
    /\ sStart > 0
    /\ sInts[1][1] < sStart
    /\ sEnd = 0
    /\ sResult.num = 5
    /\ sResult.den = 3

-----------------------------------------------------------------------------
(* Claims about the deepBlue object *)

ExactMatches(rs) == {i \in 1..Len(rs) : rs[i][2] = Sample}

\* C5: __init__ fails when the search answer holds no entry whose name is the
\* sample and also when it holds more than one; it resolves a handle only when
\* exactly one entry matches.
C5_OpenNeedsOneMatch ==
    (pc # "new" /\ resps.status = "okay") =>
        IF Cardinality(ExactMatches(resps.list)) = 1
        THEN self.experimentID = resps.list[CHOOSE i \in ExactMatches(resps.list) : TRUE][1]
        ELSE pc = "failed" /\ ret.kind = "raise" /\ self.experimentID = None

QueryNames == {"intervals", "values", "stats", "preload"}

\* C9: a method whose last poll saw the request in state 'failed' ends in an
\* error carrying the server message, whatever get_request_data answers; it
\* never returns a result.
C9_FailedRequestRaises ==
    (pc = "idle" /\ op.name \in QueryNames /\ request_status = "failed") =>
        ret.kind = "raise" /\ ret.msg = ServerMsg

\* C10: in every execution of preload() addHeader is called exactly once,
\* before the first addEntries, and no addEntries follows close().
C10_HeaderOnceBeforeEntries ==
    (pc = "idle" /\ op.name = "preload" /\ ret.kind # "none") =>
        bw.headers = 1 /\ ~bw.misordered

\* the number of calls of method m in the log
CountCalls(m) == Cardinality({i \in 1..Len(calls) : calls[i].m = m})

\* __init__ has succeeded: the object is idle or inside one of its methods
Opened == pc \in {"idle", "select", "get_regions", "poll", "sleep", "get_data"}

\* C12: once __init__ has succeeded, chroms(), values(), intervals(), stats(),
\* preload() and close() never change the experiment handle, the genome,
\* chromsDict or chromsTuple, whether they return or raise; the search for the
\* sample is made once, by __init__, and by no later method.
C12_MetadataFrozenAfterOpen ==
    /\ [][Opened => (self' = self)]_vars
    /\ [](Opened => CountCalls("search") = (IF op.name = "__init__" THEN 1 ELSE 0))

\* a query with end 0 on a known chromosome went through all its remote calls
\* and returned, on an object whose metadata __init__ filled
C12_Witness ==
    /\ pc = "idle"
    /\ op.name \in {"intervals", "values", "stats"}
    /\ op.end = 0
    /\ ret.kind = "return"
    /\ CountCalls("get_request_data") = 1
    /\ self.experimentID # None
    /\ self.chromsTuple # <<>>

\* C15: values() and intervals() asked for an unknown chromosome, or for a
\* range with start >= end once an end of 0 stands for the chromosome length,
\* raise before any remote call is made.
C15_BadRangeFailsBeforeRemote ==
    (/\ op.name \in {"intervals", "values"}
     /\ \/ op.chrom \notin DOMAIN self.chromsDict
        \/ op.start >= op.qend) =>
        /\ pc = "idle"
        /\ ret.kind = "raise"
        /\ calls = <<>>

\* values() was asked for an empty range of a known chromosome, and intervals()
\* for a chromosome the genome does not have
C15_Witness ==
    /\ pc = "idle"
    /\ ret.kind = "raise"
    /\ calls = <<>>
    /\ \/ /\ op.name = "values"
          /\ op.chrom \in DOMAIN self.chromsDict
          /\ op.start >= op.qend
          /\ op.end # 0
       \/ /\ op.name = "intervals"
          /\ op.chrom \notin DOMAIN self.chromsDict
          /\ op.start < op.end

\* C16: in __init__, intervals() and preload() a remote call, a poll included,
\* whose answer has a status other than "okay" is the last call of the method,
\* and the method ends in an error that carries the message of the server.
C16_RemoteErrorEndsWithMessage ==
    \A i \in 1..Len(calls) :
        calls[i].status # "okay" =>
            /\ i = Len(calls)
            /\ pc \in {"idle", "failed"}
            /\ ret.kind = "raise"
            /\ ret.msg = ServerMsg

\* the log of remote calls is a prefix of select_experiments, get_regions,
\* one or more info, get_request_data
InQueryOrder ==
    \A i \in 1..Len(calls) :
        /\ i = 1 => calls[i].m = "select_experiments"
        /\ i = 2 => calls[i].m = "get_regions"
        /\ i >= 3 => calls[i].m \in {"info", "get_request_data"}
        /\ calls[i].m = "get_request_data" =>
                /\ i = Len(calls)
                /\ i >= 4
                /\ calls[i - 1].m = "info"

\* C17: intervals() makes its remote calls in the order select_experiments,
\* get_regions, one or more polls, get_request_data; get_request_data is called
\* at most once and only after a poll saw the request done or failed; while a
\* poll sees any other state the client stays in the wait loop.
C17_QueryCallOrder ==
    op.name \in {"intervals", "values", "stats"} =>
        /\ InQueryOrder
        /\ CountCalls("get_request_data") <= 1
        /\ (pc = "get_data" \/ CountCalls("get_request_data") = 1) =>
                /\ request_status \in FinalStates
                /\ calls[Len(calls) - (IF pc = "get_data" THEN 0 ELSE 1)].status = "okay"
        /\ (pc = "poll" /\ CountCalls("info") >= 1) => request_status \in PendingStates
        /\ pc = "sleep" => request_status \in PendingStates

\* intervals() returned after get_request_data, which followed at least two
\* polls, the last of which saw the request done
C17_Witness ==
    /\ pc = "idle"
    /\ op.name = "intervals"
    /\ ret.kind = "return"
    /\ CountCalls("info") >= 2
    /\ CountCalls("get_request_data") = 1
    /\ request_status = "done"

\* the client is in the wait loop of lines 232-237
InWaitLoop == pc \in {"poll", "sleep"}

\* while the client waits in the loop, the request ends on the server
RequestEnds == InWaitLoop ~> (job \in FinalStates \/ ~InWaitLoop)

\* C18: if the request reaches done or failed and every call is answered, the
\* wait loop of intervals() is left and the method ends; the loop has no
\* deadline: it is left only after the request has ended (or by the error of
\* a poll whose answer is not "okay"), so a request that stays pending keeps
\* the client polling for ever.
C18_PollLoopEndsOnlyWithRequest ==
    /\ RequestEnds => (InWaitLoop ~> (pc = "idle"))
    /\ [][(InWaitLoop /\ ~InWaitLoop') =>
            (job \in FinalStates \/ calls'[Len(calls')].status # "okay")]_vars

\* intervals() returned after as many polls as the log keeps, the last of which
\* saw the request done
C18_Witness ==
    /\ pc = "idle"
    /\ op.name = "intervals"
    /\ ret.kind = "return"
    /\ CountCalls("info") = MaxPolls
    /\ job = "done"

-----------------------------------------------------------------------------
(* Specifications *)

NextMerge ==
    \/ Merge /\ UNCHANGED <<tileVars, valuesVars, statsVars, sessVars>>
    \/ ReMerge /\ UNCHANGED <<tileVars, valuesVars, statsVars, sessVars>>

InitMergeOnly == InitMerge /\ TilesIdle /\ ValuesIdle /\ StatsIdle /\ SessIdle

SpecMerge == InitMergeOnly /\ [][NextMerge]_vars

NextTiles ==
    \/ TileFor /\ UNCHANGED <<mergeVars, valuesVars, statsVars, sessVars>>
    \/ TileEmit /\ UNCHANGED <<mergeVars, valuesVars, statsVars, sessVars>>
    \/ TileExit /\ UNCHANGED <<mergeVars, valuesVars, statsVars, sessVars>>

InitTilesOnly == InitTiles /\ MergeIdle /\ ValuesIdle /\ StatsIdle /\ SessIdle

SpecTiles == InitTilesOnly /\ [][NextTiles]_vars

NextValues == Values /\ UNCHANGED <<mergeVars, tileVars, statsVars, sessVars>>

InitValuesOnly == InitValues /\ MergeIdle /\ TilesIdle /\ StatsIdle /\ SessIdle

SpecValues == InitValuesOnly /\ [][NextValues]_vars

NextStats == Stats /\ UNCHANGED <<mergeVars, tileVars, valuesVars, sessVars>>

InitStatsOnly == InitStats /\ MergeIdle /\ TilesIdle /\ ValuesIdle /\ SessIdle

SpecStats == InitStatsOnly /\ [][NextStats]_vars

otherVars == <<mergeVars, tileVars, valuesVars, statsVars>>

NextSession ==
    \/ InitSearch /\ UNCHANGED otherVars
    \/ InitInfo /\ UNCHANGED otherVars
    \/ InitChroms /\ UNCHANGED otherVars
    \/ CallChroms /\ UNCHANGED otherVars
    \/ Close /\ UNCHANGED otherVars
    \/ BeginQuery /\ UNCHANGED otherVars
    \/ Select /\ UNCHANGED otherVars
    \/ GetRegions /\ UNCHANGED otherVars
    \/ ServerStep /\ UNCHANGED otherVars
    \/ Poll /\ UNCHANGED otherVars
    \/ Sleep /\ UNCHANGED otherVars
    \/ GetData /\ UNCHANGED otherVars
    \/ Preload /\ UNCHANGED otherVars

InitSessionOnly == InitSess /\ MergeIdle /\ TilesIdle /\ ValuesIdle /\ StatsIdle

SpecSession == InitSessionOnly /\ [][NextSession]_vars

\* the steps of a method that is running: the one thread of the client goes on
\* to its next statement, and time.sleep(0.1) returns
ClientStep ==
    /\ \/ InitSearch
       \/ InitInfo
       \/ InitChroms
       \/ Select
       \/ GetRegions
       \/ Poll
       \/ Sleep
       \/ GetData
    /\ UNCHANGED otherVars

SpecSessionFair == InitSessionOnly /\ [][NextSession]_vars /\ WF_vars(ClientStep)

====
